---- MODULE Spec2Model ----
(***************************************************************************)
(* tgalloc: a type-generic allocation facade (palloc / ppalloc / pprealloc *)
(* / pfree) over a rebindable backend (TGA, TGA_ALLOC_A_S,                 *)
(* TGA_REALLOC_A_S, TGA_FREE_A_S), with the default malloc backend and the *)
(* counting TestAllocator backend of the test suite.                       *)
(*                                                                         *)
(* size_t is modelled with SizeBits bits, the heap as NumAddr abstract     *)
(* addresses holding regions, a region's contents as a sequence of         *)
(* elements of the type of the pointer it is accessed through.             *)
(***************************************************************************)
EXTENDS Integers, Sequences, FiniteSets, TLC

\* ---------------------------------------------------------------- bounds
SizeBits == 4
NumAddr == 2
MaxCount == 2
MaxVal == 1
HeapBytes == 12
MaxSteps == 4
MaxStepsBuilds == 2

RECURSIVE Pow2(_)
Pow2(n) == IF n = 0 THEN 1 ELSE 2 * Pow2(n - 1)

SIZE_MOD == Pow2(SizeBits)
SIZE_MAX == SIZE_MOD - 1

NULL == 0
INDET == -1
UNINIT == -1
Addr == 1 .. NumAddr
Values == 0 .. MaxVal
Counts == 0 .. MaxCount

Min(a, b) == IF a < b THEN a ELSE b

\* ------------------------------------------------------- caller's pointers
\* int* nums and Point* point of the test program
TestSlots == {"nums", "point"}

\* and a pointer to a three-byte element, struct { unsigned char r, g, b; }* rgb
AllSlots == TestSlots \cup {"rgb"}

TypeOf(s) == IF s = "nums" THEN "int" ELSE IF s = "point" THEN "Point" ELSE "Rgb"

AddrOf(s) == <<"&", s>>

Deref(pp) == pp[2]

\* --------------------------------------------------- size / alignment
Builds == {[cstd |-> "c23", alignof |-> "alignof"],
           [cstd |-> "c99", alignof |-> "alignof"],
           [cstd |-> "c99", alignof |-> "fallback"]}

SizeofT(T) == IF T = "int" THEN 4 ELSE IF T = "Point" THEN 8 ELSE 3

AlignofT(T) == IF T = "Rgb" THEN 1 ELSE 4

SizeofVoidPtr == 8

_tgalloc_alignof_impl(b, T) ==
    IF b.alignof = "alignof" THEN AlignofT(T)
    ELSE IF SizeofT(T) < SizeofVoidPtr THEN SizeofT(T) ELSE SizeofVoidPtr

_tgalloc_sizeof(T) == SizeofT(T) % SIZE_MOD

\* mutant: the element count is dropped
Mut_sizeof_n_one(T, n) == _tgalloc_sizeof(T)

\* mutant: a product beyond SIZE_MAX is clamped
Mut_sizeof_n_clamped(T, n) ==
    IF _tgalloc_sizeof(T) * n > SIZE_MAX THEN SIZE_MAX ELSE _tgalloc_sizeof(T) * n

_tgalloc_sizeof_n(T, n) == (_tgalloc_sizeof(T) * n) % SIZE_MOD

\* ------------------------------------------------------------- the heap
Dead == [live |-> FALSE, size |-> 0, data |-> <<>>, owner |-> "none"]

RECURSIVE SumSizes(_, _)
SumSizes(h, A) ==
    IF A = {} THEN 0
    ELSE LET a == CHOOSE x \in A : TRUE
         IN (IF h[a].live THEN h[a].size ELSE 0) + SumSizes(h, A \ {a})

LiveBytes(h) == SumSizes(h, Addr)

FreeAddrs(h) == {a \in Addr : ~h[a].live}

\* Addresses are opaque: a new region takes the lowest free address.
NewAddr(h) == IF FreeAddrs(h) = {} THEN {}
              ELSE {CHOOSE a \in FreeAddrs(h) : \A b \in FreeAddrs(h) : a <= b}

\* n elements of fresh storage: their values are indeterminate
Fresh(n) == [i \in 1 .. n |-> UNINIT]

Region(size, data) == [live |-> TRUE, size |-> size, data |-> data, owner |-> "none"]

\* malloc(size): null, or a fresh region of size bytes with unspecified contents
malloc(h, size, esz) ==
    {[heap |-> h, ptr |-> NULL]}
    \cup (IF LiveBytes(h) + size <= HeapBytes
          THEN {[heap |-> [h EXCEPT ![a] = Region(size, Fresh(size \div esz))], ptr |-> a] :
                    a \in NewAddr(h)}
          ELSE {})

\* realloc(ptr, new_size)
realloc(h, ptr, new_size, esz) ==
    IF ptr = NULL THEN malloc(h, new_size, esz)
    ELSE LET r == h[ptr]
             keep == Min(Len(r.data), new_size \div esz)
             prefix == SubSeq(r.data, 1, keep)
             hfree == [h EXCEPT ![ptr] = Dead]
         IN {[heap |-> h, ptr |-> NULL]}
            \cup (IF new_size = 0 THEN {[heap |-> hfree, ptr |-> NULL]} ELSE {})
            \cup (IF LiveBytes(hfree) + new_size <= HeapBytes
                  THEN {[heap |-> [hfree EXCEPT ![a] =
                                      [Region(new_size, prefix \o Fresh((new_size \div esz) - keep))
                                           EXCEPT !.owner = r.owner]],
                         ptr |-> a] :
                            a \in {ptr} \cup NewAddr(h)}
                  ELSE {})

free(h, ptr) == IF ptr = NULL THEN h ELSE [h EXCEPT ![ptr] = Dead]

Stamp(h, p, who) == IF p = NULL THEN h ELSE [h EXCEPT ![p].owner = who]

\* ------------------------------------------------------ backend functions
\* Every backend function yields the set of its possible outcomes:
\* the heap, the TestAllocator and the returned pointer.
Outcome(h, ta, ret) == [heap |-> h, ta |-> ta, ret |-> ret]

\* mutant: the default allocation function books into the TestAllocator
Mut_dflt_alloc_counts(h, ta, self, alignment, size, esz) ==
    LET ta2 == [ta EXCEPT !.alloc_count = (@ + 1) % SIZE_MOD,
                          !.total_allocated = (@ + size) % SIZE_MOD]
    IN {Outcome(Stamp(o.heap, o.ptr, "dflt"), ta2, o.ptr) : o \in malloc(h, size, esz)}

_tgalloc_dflt_alloc_aligned_sized(h, ta, self, alignment, size, esz) ==
    {Outcome(Stamp(o.heap, o.ptr, "dflt"), ta, o.ptr) : o \in malloc(h, size, esz)}

\* mutant: reallocation as free followed by malloc, nothing copied
Mut_dflt_realloc_fresh(h, ta, self, ptr, alignment, old_size, new_size, esz) ==
    {Outcome(Stamp(o.heap, o.ptr, "dflt"), ta, o.ptr) : o \in malloc(free(h, ptr), new_size, esz)}

\* mutant: a failed reallocation releases the original region
Mut_dflt_realloc_release(h, ta, self, ptr, alignment, old_size, new_size, esz) ==
    {Outcome(Stamp(IF o.ptr = NULL THEN free(h, ptr) ELSE o.heap, o.ptr, "dflt"), ta, o.ptr) :
         o \in realloc(h, ptr, new_size, esz)}

_tgalloc_dflt_realloc_aligned_sized(h, ta, self, ptr, alignment, old_size, new_size, esz) ==
    {Outcome(Stamp(o.heap, o.ptr, "dflt"), ta, o.ptr) : o \in realloc(h, ptr, new_size, esz)}

_tgalloc_dflt_free_aligned_sized(h, ta, self, ptr, alignment, size) ==
    {Outcome(free(h, ptr), ta, NULL)}

test_alloc(h, ta, self, alignment, size, esz) ==
    IF ta.should_fail THEN {Outcome(h, ta, NULL)}
    ELSE LET ta2 == [ta EXCEPT !.alloc_count = (@ + 1) % SIZE_MOD,
                               !.total_allocated = (@ + size) % SIZE_MOD]
         IN {Outcome(Stamp(o.heap, o.ptr, "test"), ta2, o.ptr) : o \in malloc(h, size, esz)}

test_realloc(h, ta, self, ptr, alignment, old_size, new_size, esz) ==
    IF ta.should_fail THEN {Outcome(h, ta, NULL)}
    ELSE LET ta2 == [ta EXCEPT !.total_allocated =
                                   (@ + SIZE_MOD - old_size + new_size) % SIZE_MOD]
         IN {Outcome(Stamp(o.heap, o.ptr, "test"), ta2, o.ptr) :
                 o \in realloc(h, ptr, new_size, esz)}

\* mutant: the null check is missing
Mut_test_free_nocheck(h, ta, self, ptr, alignment, size) ==
    LET ta2 == [ta EXCEPT !.free_count = (@ + 1) % SIZE_MOD,
                          !.total_allocated = (@ + SIZE_MOD - size) % SIZE_MOD]
    IN {Outcome(free(h, ptr), ta2, NULL)}

test_free(h, ta, self, ptr, alignment, size) ==
    IF ptr = NULL THEN {Outcome(h, ta, NULL)}
    ELSE LET ta2 == [ta EXCEPT !.free_count = (@ + 1) % SIZE_MOD,
                               !.total_allocated = (@ + SIZE_MOD - size) % SIZE_MOD]
         IN {Outcome(free(h, ptr), ta2, NULL)}

TestAllocatorZero ==
    [alloc_count |-> 0, free_count |-> 0, total_allocated |-> 0, should_fail |-> FALSE]

\* ------------------------------------------------------ the active binding
DefaultBinding ==
    [TGA |-> "(dflt_allo_t*)NULL",
     TGA_ALLOC_A_S |-> "_tgalloc_dflt_alloc_aligned_sized",
     TGA_REALLOC_A_S |-> "_tgalloc_dflt_realloc_aligned_sized",
     TGA_FREE_A_S |-> "_tgalloc_dflt_free_aligned_sized"]

CustomBinding ==
    [TGA |-> "(TestAllocator*)&test_allocator",
     TGA_ALLOC_A_S |-> "test_alloc",
     TGA_REALLOC_A_S |-> "test_realloc",
     TGA_FREE_A_S |-> "test_free"]

\* #include "tgalloc_default.h": the #undef / #define block of the header.
\* It redefines ALLO, a macro nothing expands, and the three functions;
\* TGA keeps the definition it had.
tgalloc_default_h(m) ==
    [m EXCEPT !.TGA_ALLOC_A_S = "_tgalloc_dflt_alloc_aligned_sized",
              !.TGA_REALLOC_A_S = "_tgalloc_dflt_realloc_aligned_sized",
              !.TGA_FREE_A_S = "_tgalloc_dflt_free_aligned_sized"]

\* the #undef / #define blocks written out in the calling code
define_custom(m) ==
    [m EXCEPT !.TGA = CustomBinding.TGA,
              !.TGA_ALLOC_A_S = CustomBinding.TGA_ALLOC_A_S,
              !.TGA_REALLOC_A_S = CustomBinding.TGA_REALLOC_A_S,
              !.TGA_FREE_A_S = CustomBinding.TGA_FREE_A_S]

define_default(m) ==
    [m EXCEPT !.TGA = DefaultBinding.TGA,
              !.TGA_ALLOC_A_S = DefaultBinding.TGA_ALLOC_A_S,
              !.TGA_REALLOC_A_S = DefaultBinding.TGA_REALLOC_A_S,
              !.TGA_FREE_A_S = DefaultBinding.TGA_FREE_A_S]

TGA_ALLOC(m, h, ta, alignment, size, esz) ==
    IF m.TGA_ALLOC_A_S = "test_alloc"
    THEN test_alloc(h, ta, m.TGA, alignment, size, esz)
    ELSE _tgalloc_dflt_alloc_aligned_sized(h, ta, m.TGA, alignment, size, esz)

TGA_REALLOC(m, h, ta, ptr, alignment, old_size, new_size, esz) ==
    IF m.TGA_REALLOC_A_S = "test_realloc"
    THEN test_realloc(h, ta, m.TGA, ptr, alignment, old_size, new_size, esz)
    ELSE _tgalloc_dflt_realloc_aligned_sized(h, ta, m.TGA, ptr, alignment, old_size, new_size, esz)

TGA_FREE(m, h, ta, ptr, alignment, size) ==
    IF m.TGA_FREE_A_S = "test_free"
    THEN test_free(h, ta, m.TGA, ptr, alignment, size)
    ELSE _tgalloc_dflt_free_aligned_sized(h, ta, m.TGA, ptr, alignment, size)

\* ------------------------------------------------------- arity dispatch
\* mutant: the selector takes the last name of the list
Mut_palloc_arg3_last(xs) == xs[Len(xs)]

\* __tgalloc_c99.h: _tgalloc_palloc_arg3(__VA_ARGS__, f2, f1) selects x3
_tgalloc_palloc_arg3(xs) == xs[3]

\* __tgalloc_c23.h: _tgalloc_palloc_arg2(__VA_ARGS__ __VA_OPT__(,) f2, f1) selects x2
_tgalloc_palloc_arg2(xs) == xs[2]

\* args is the whole argument list of palloc / pfree: <<ptr>> or <<ptr, len>>
_tgalloc_palloc_choose(b, args) ==
    IF b.cstd = "c23"
    THEN _tgalloc_palloc_arg2(Tail(args) \o <<"_tgalloc_palloc2", "_tgalloc_palloc1">>)
    ELSE _tgalloc_palloc_arg3(args \o <<"_tgalloc_palloc2", "_tgalloc_palloc1">>)

_tgalloc_pfree_choose(b, args) ==
    IF b.cstd = "c23"
    THEN _tgalloc_palloc_arg2(Tail(args) \o <<"_tgalloc_pfree2", "_tgalloc_pfree1">>)
    ELSE _tgalloc_palloc_arg3(args \o <<"_tgalloc_pfree2", "_tgalloc_pfree1">>)

\* the argument lists a call site can write for slot s
ArgLists(s) == {<<s>>} \cup {<<s, n>> : n \in Counts}

\* ------------------------------------------------------- the facade macros
\* A backend call as the facade made it.
Call(fn, self, ptr, alignment, old_size, size, ret) ==
    [fn |-> fn, self |-> self, ptr |-> ptr, alignment |-> alignment,
     old_size |-> old_size, size |-> size, ret |-> ret]

Result(h, ta, sl, calls) == [heap |-> h, ta |-> ta, slot |-> sl, calls |-> calls]

\* mutant: a null result is answered with a second call
Mut_palloc1_retry(m, b, h, ta, sl, s) ==
    LET T == TypeOf(s)
        al == _tgalloc_alignof_impl(b, T)
        sz == _tgalloc_sizeof(T)
        call(ret) == Call(m.TGA_ALLOC_A_S, m.TGA, NULL, al, 0, sz, ret)
    IN UNION {IF o.ret /= NULL
              THEN {Result(o.heap, o.ta, [sl EXCEPT ![s] = o.ret], <<call(o.ret)>>)}
              ELSE {Result(o2.heap, o2.ta, [sl EXCEPT ![s] = o2.ret],
                           <<call(o.ret), call(o2.ret)>>) :
                        o2 \in TGA_ALLOC(m, o.heap, o.ta, al, sz, SizeofT(T))} :
                 o \in TGA_ALLOC(m, h, ta, al, sz, SizeofT(T))}

\* ((ptr) = (typeof(ptr))TGA_ALLOC_A_S(TGA, alignof, sizeof))
_tgalloc_palloc1(m, b, h, ta, sl, s) ==
    LET T == TypeOf(s)
        al == _tgalloc_alignof_impl(b, T)
        sz == _tgalloc_sizeof(T)
    IN {Result(o.heap, o.ta, [sl EXCEPT ![s] = o.ret],
               <<Call(m.TGA_ALLOC_A_S, m.TGA, NULL, al, 0, sz, o.ret)>>) :
            o \in TGA_ALLOC(m, h, ta, al, sz, SizeofT(T))}

\* mutant: the pointer is assigned only when the allocation succeeded
Mut_palloc2_keep(m, b, h, ta, sl, s, len) ==
    LET T == TypeOf(s)
        al == _tgalloc_alignof_impl(b, T)
        sz == _tgalloc_sizeof_n(T, len)
    IN {Result(o.heap, o.ta, IF o.ret = NULL THEN sl ELSE [sl EXCEPT ![s] = o.ret],
               <<Call(m.TGA_ALLOC_A_S, m.TGA, NULL, al, 0, sz, o.ret)>>) :
            o \in TGA_ALLOC(m, h, ta, al, sz, SizeofT(T))}

\* ((ptr) = (typeof(ptr))TGA_ALLOC_A_S(TGA, alignof, sizeof * len))
_tgalloc_palloc2(m, b, h, ta, sl, s, len) ==
    LET T == TypeOf(s)
        al == _tgalloc_alignof_impl(b, T)
        sz == _tgalloc_sizeof_n(T, len)
    IN {Result(o.heap, o.ta, [sl EXCEPT ![s] = o.ret],
               <<Call(m.TGA_ALLOC_A_S, m.TGA, NULL, al, 0, sz, o.ret)>>) :
            o \in TGA_ALLOC(m, h, ta, al, sz, SizeofT(T))}

\* the pointer passed to free is indeterminate afterwards
AfterFree(p) == IF p = NULL THEN NULL ELSE INDET

\* TGA_FREE_A_S(TGA, (void*)(ptr), alignof, sizeof)
_tgalloc_pfree1(m, b, h, ta, sl, s) ==
    LET T == TypeOf(s)
        al == _tgalloc_alignof_impl(b, T)
        sz == _tgalloc_sizeof(T)
    IN {Result(o.heap, o.ta, [sl EXCEPT ![s] = AfterFree(sl[s])],
               <<Call(m.TGA_FREE_A_S, m.TGA, sl[s], al, 0, sz, NULL)>>) :
            o \in TGA_FREE(m, h, ta, sl[s], al, sz)}

\* TGA_FREE_A_S(TGA, (void*)(ptr), alignof, sizeof * len)
_tgalloc_pfree2(m, b, h, ta, sl, s, len) ==
    LET T == TypeOf(s)
        al == _tgalloc_alignof_impl(b, T)
        sz == _tgalloc_sizeof_n(T, len)
    IN {Result(o.heap, o.ta, [sl EXCEPT ![s] = AfterFree(sl[s])],
               <<Call(m.TGA_FREE_A_S, m.TGA, sl[s], al, 0, sz, NULL)>>) :
            o \in TGA_FREE(m, h, ta, sl[s], al, sz)}

\* palloc(...): the selected helper applied to the same arguments
palloc(m, b, h, ta, sl, args) ==
    IF _tgalloc_palloc_choose(b, args) = "_tgalloc_palloc1"
    THEN _tgalloc_palloc1(m, b, h, ta, sl, args[1])
    ELSE _tgalloc_palloc2(m, b, h, ta, sl, args[1], args[Len(args)])

\* pfree(...)
pfree(m, b, h, ta, sl, args) ==
    IF _tgalloc_pfree_choose(b, args) = "_tgalloc_pfree1"
    THEN _tgalloc_pfree1(m, b, h, ta, sl, args[1])
    ELSE _tgalloc_pfree2(m, b, h, ta, sl, args[1], args[Len(args)])

\* ppalloc(pptr, ...) is palloc(*(pptr) __VA_OPT__(,) __VA_ARGS__)
ppalloc(m, b, h, ta, sl, pptr, va) ==
    palloc(m, b, h, ta, sl, <<Deref(pptr)>> \o va)

\* mutant: the old and the new byte size change places
Mut_realloc2_swapped(m, b, h, ta, s, ptr, old_len, new_len) ==
    LET T == TypeOf(s)
        al == _tgalloc_alignof_impl(b, T)
    IN TGA_REALLOC(m, h, ta, ptr, al, _tgalloc_sizeof_n(T, new_len),
                   _tgalloc_sizeof_n(T, old_len), SizeofT(T))

\* TGA_REALLOC_A_S(TGA, (void*)(ptr), alignof, sizeof * old_len, sizeof * new_len)
_tgalloc_realloc2(m, b, h, ta, s, ptr, old_len, new_len) ==
    LET T == TypeOf(s)
        al == _tgalloc_alignof_impl(b, T)
    IN TGA_REALLOC(m, h, ta, ptr, al, _tgalloc_sizeof_n(T, old_len),
                   _tgalloc_sizeof_n(T, new_len), SizeofT(T))

\* mutant: the pointer is assigned only when the reallocation succeeded
Mut_pprealloc_keep(m, b, h, ta, sl, pptr, old_len, new_len) ==
    LET s == Deref(pptr)
        T == TypeOf(s)
    IN {Result(o.heap, o.ta, IF o.ret = NULL THEN sl ELSE [sl EXCEPT ![s] = o.ret],
               <<Call(m.TGA_REALLOC_A_S, m.TGA, sl[s], _tgalloc_alignof_impl(b, T),
                      _tgalloc_sizeof_n(T, old_len), _tgalloc_sizeof_n(T, new_len), o.ret)>>) :
            o \in _tgalloc_realloc2(m, b, h, ta, s, sl[s], old_len, new_len)}

\* (*(pptr) = _tgalloc_realloc2(*(pptr), old_len, new_len))
pprealloc(m, b, h, ta, sl, pptr, old_len, new_len) ==
    LET s == Deref(pptr)
        T == TypeOf(s)
    IN {Result(o.heap, o.ta, [sl EXCEPT ![s] = o.ret],
               <<Call(m.TGA_REALLOC_A_S, m.TGA, sl[s], _tgalloc_alignof_impl(b, T),
                      _tgalloc_sizeof_n(T, old_len), _tgalloc_sizeof_n(T, new_len), o.ret)>>) :
            o \in _tgalloc_realloc2(m, b, h, ta, s, sl[s], old_len, new_len)}

\* ------------------------------------------------------------ the state
VARIABLES
    build,           \* the translation unit's language level and alignof support
    macros,          \* the preprocessor's definitions of TGA, ALLO, TGA_*_A_S
    test_allocator,  \* TestAllocator test_allocator
    heap,            \* address -> region
    slot,            \* the caller's typed pointers
    last,            \* the operation just performed and the backend calls it made
    budget           \* operations the calling code still performs

vars == <<build, macros, test_allocator, heap, slot, last, budget>>

\* was: the value the caller's pointer held before the operation
Op(op, s, was, args, variant, calls, idx, val) ==
    [op |-> op, slot |-> s, was |-> was, args |-> args, variant |-> variant,
     calls |-> calls, idx |-> idx, val |-> val]

Plain(op) == Op(op, "none", NULL, <<>>, "none", <<>>, 0, 0)

\* the Makefile compiles with -std=c2x
MakefileBuild == [cstd |-> "c23", alignof |-> "alignof"]

\* the pointers the calling code declares
Slots == DOMAIN slot

Declared(s) == s \in Slots

Start(builds, n, slots) ==
    /\ build \in builds
    /\ budget = n
    /\ macros = DefaultBinding
    /\ test_allocator = TestAllocatorZero
    /\ heap = [a \in Addr |-> Dead]
    /\ slot = [s \in slots |-> NULL]
    /\ last = Plain("init")

Init == Start({MakefileBuild}, MaxSteps, TestSlots)

InitBuilds == Start(Builds, MaxStepsBuilds, AllSlots)

Tick == budget > 0 /\ budget' = budget - 1

\* the caller's pointer is null or points at a live region
Valid(s) == slot[s] /= INDET

Holds(s) == slot[s] \in Addr

\* The caller's side of the contract: a region is freed or reallocated under
\* the backend that allocated it and with its own byte size (anything else is
\* undefined behaviour at the boundary).
Matching(fn, p, size) ==
    p /= NULL =>
        /\ heap[p].size = size
        /\ (heap[p].owner = "test") <=> (fn \in {"test_free", "test_realloc"})

Apply(r, op) ==
    /\ heap' = r.heap
    /\ test_allocator' = r.ta
    /\ slot' = r.slot
    /\ last' = op
    /\ UNCHANGED <<build, macros>>

Ppalloc(s, va) ==
    /\ Tick
    /\ Declared(s)
    /\ \E r \in ppalloc(macros, build, heap, test_allocator, slot, AddrOf(s), va) :
           Apply(r, Op("ppalloc", s, slot[s], va, _tgalloc_palloc_choose(build, <<s>> \o va),
                       r.calls, 0, 0))

Pprealloc(s, old_len, new_len) ==
    /\ Tick
    /\ Declared(s)
    /\ Valid(s)
    /\ Matching(macros.TGA_REALLOC_A_S, slot[s], _tgalloc_sizeof_n(TypeOf(s), old_len))
    /\ \E r \in pprealloc(macros, build, heap, test_allocator, slot, AddrOf(s),
                          old_len, new_len) :
           /\ Apply(r, Op("pprealloc", s, slot[s], <<old_len, new_len>>, "_tgalloc_realloc2",
                          r.calls, 0, 0))

Pfree(s, args) ==
    /\ Tick
    /\ Declared(s)
    /\ Valid(s)
    /\ \E r \in pfree(macros, build, heap, test_allocator, slot, args) :
           /\ Matching(macros.TGA_FREE_A_S, slot[s], r.calls[1].size)
           /\ Apply(r, Op("pfree", s, slot[s], Tail(args), _tgalloc_pfree_choose(build, args),
                          r.calls, 0, 0))

\* ptr[i] = v
Write(s, i, v) ==
    /\ Tick
    /\ Declared(s)
    /\ Holds(s)
    /\ i < Len(heap[slot[s]].data)
    /\ heap' = [heap EXCEPT ![slot[s]].data[i + 1] = v]
    /\ last' = Op("write", s, slot[s], <<>>, "none", <<>>, i, v)
    /\ UNCHANGED <<build, macros, test_allocator, slot>>

\* ptr[i]
Read(s, i) == heap[slot[s]].data[i + 1]

\* test_allocator.should_fail = b
SetShouldFail(b) ==
    /\ Tick
    /\ test_allocator.should_fail /= b
    /\ test_allocator' = [test_allocator EXCEPT !.should_fail = b]
    /\ last' = Plain("should_fail")
    /\ UNCHANGED <<build, macros, heap, slot>>

\* called at the start of a test case, when the TestAllocator holds no region
reset_test_allocator ==
    /\ Tick
    /\ \A a \in Addr : heap[a].owner /= "test"
    /\ test_allocator' = TestAllocatorZero
    /\ last' = Plain("reset_test_allocator")
    /\ UNCHANGED <<build, macros, heap, slot>>

\* mutant: rebinding to the TestAllocator also clears its counters
Mut_RebindCustom_clears ==
    /\ Tick
    /\ macros' = define_custom(macros)
    /\ test_allocator' = TestAllocatorZero
    /\ last' = Plain("define_custom")
    /\ UNCHANGED <<build, heap, slot>>

\* #undef / #define of the four macros to the TestAllocator
RebindCustom ==
    /\ Tick
    /\ macros' = define_custom(macros)
    /\ last' = Plain("define_custom")
    /\ UNCHANGED <<build, test_allocator, heap, slot>>

\* #undef / #define of the four macros to the default allocator
RebindDefault ==
    /\ Tick
    /\ macros' = define_default(macros)
    /\ last' = Plain("define_default")
    /\ UNCHANGED <<build, test_allocator, heap, slot>>

\* #include "tgalloc_default.h"
IncludeDefault ==
    /\ Tick
    /\ macros' = tgalloc_default_h(macros)
    /\ last' = Plain("tgalloc_default_h")
    /\ UNCHANGED <<build, test_allocator, heap, slot>>

Next ==
    \/ \E s \in AllSlots : \E va \in {<<>>} \cup {<<n>> : n \in Counts} : Ppalloc(s, va)
    \/ \E s \in AllSlots : \E o \in Counts : \E n \in Counts : Pprealloc(s, o, n)
    \/ \E s \in AllSlots : \E args \in ArgLists(s) : Pfree(s, args)
    \/ \E s \in AllSlots : \E i \in 0 .. MaxCount : \E v \in Values : Write(s, i, v)
    \/ \E b \in BOOLEAN : SetShouldFail(b)
    \/ reset_test_allocator
    \/ RebindCustom
    \/ RebindDefault
    \/ IncludeDefault

Spec == Init /\ [][Next]_vars

\* every build of the header and every element type, for the build-dependent
\* macros
SpecBuilds == InitBuilds /\ [][Next]_vars

\* ------------------------------------------------------------- claims

\* C1 Failure propagation: when the backend's allocate returned null, the
\* caller's pointer is null after allocate-one / allocate-array /
\* allocate-indirect, whatever it held before.
C1_FailurePropagation ==
    (last.op = "ppalloc" /\ last.calls[1].ret = NULL) => slot[last.slot] = NULL

C1_Witness ==
    /\ last.op = "ppalloc"
    /\ last.calls[1].ret = NULL
    /\ last.was \in Addr
    /\ slot[last.slot] = NULL

\* C2 Null safety: pfree of a null pointer, with or without a count, under the
\* default and under the counting backend, releases no region and changes no
\* counter of the TestAllocator.
C2_NullFreeNoOp ==
    [][(last'.op = "pfree" /\ slot[last'.slot] = NULL)
         => (heap' = heap /\ test_allocator' = test_allocator /\ slot' = slot)]_vars

C2_Witness ==
    /\ last.op = "pfree"
    /\ last.was = NULL
    /\ last.calls[1].fn = "test_free"
    /\ last.args = <<MaxCount>>
    /\ test_allocator.alloc_count = 1
    /\ test_allocator.free_count = 0
    /\ \E a \in Addr : heap[a].live

FacadeOps == {"ppalloc", "pprealloc", "pfree"}

\* count elements of type T take count * sizeof(T) bytes without wrapping size_t
Fits(T, count) == SizeofT(T) * count <= SIZE_MAX

\* the elements at indices [0, n) of the region at p in heap h1 are those of
\* the region at q in heap h2
SamePrefix(h1, p, h2, q, n) ==
    \A i \in 1 .. n :
        /\ i <= Len(h1[p].data)
        /\ i <= Len(h2[q].data)
        /\ h1[p].data[i] = h2[q].data[i]

\* a successful pprealloc(old, new), old <= new, of a region of old elements
GrowingRealloc ==
    /\ last'.op = "pprealloc"
    /\ last'.calls[1].ret /= NULL
    /\ last'.args[1] <= last'.args[2]
    /\ slot[last'.slot] \in Addr
    /\ Len(heap[slot[last'.slot]].data) = last'.args[1]

\* C3 as claimed: for every old_count <= new_count a successful
\* reallocate-array keeps the elements [0, old_count).
C3_ReallocPrefix_AsClaimed ==
    [][GrowingRealloc
         => SamePrefix(heap', slot'[last'.slot], heap, slot[last'.slot], last'.args[1])]_vars

\* C3 Realloc prefix preservation, amended: for every old_count <= new_count
\* whose new byte size new_count * sizeof(T) does not wrap size_t, a successful
\* reallocate-array of a region of old_count elements keeps the elements
\* [0, old_count), relocated or not.
C3_ReallocPrefix ==
    [][(GrowingRealloc /\ Fits(TypeOf(last'.slot), last'.args[2]))
         => SamePrefix(heap', slot'[last'.slot], heap, slot[last'.slot], last'.args[1])]_vars

C3_Witness ==
    /\ last.op = "pprealloc"
    /\ last.args = <<1, 2>>
    /\ last.was \in Addr
    /\ slot[last.slot] \in Addr
    /\ slot[last.slot] /= last.was
    /\ Len(heap[slot[last.slot]].data) = 2
    /\ heap[slot[last.slot]].data[1] \in Values

\* after a successful allocate-array(s, N), N >= 1, the region holds N elements
ArrayHolds(op) ==
    (/\ op.op = "ppalloc"
     /\ op.variant = "_tgalloc_palloc2"
     /\ op.calls[1].ret /= NULL
     /\ op.args[1] >= 1)

\* ptr[i] = v is read back as v and changes no other element
WriteReadBack ==
    last'.op = "write" =>
        LET p == slot[last'.slot]
        IN /\ slot' = slot
           /\ Len(heap'[p].data) = Len(heap[p].data)
           /\ \A j \in 1 .. Len(heap[p].data) :
                  heap'[p].data[j] = IF j = last'.idx + 1 THEN last'.val ELSE heap[p].data[j]

\* an operation on another pointer leaves the region of s as it is
OthersKeep ==
    \A s \in Slots :
        (slot[s] \in Addr /\ last'.slot /= s)
            => (slot'[s] = slot[s] /\ heap'[slot[s]] = heap[slot[s]])

\* C4 as claimed: for every count N >= 1 a successful allocate-array(ref, N)
\* yields N elements that read back as written.
C4_RoundTrip_AsClaimed ==
    [][/\ ArrayHolds(last') => Len(heap'[slot'[last'.slot]].data) = last'.args[1]
       /\ WriteReadBack
       /\ OthersKeep]_vars

\* C4 Round-trip integrity, amended: for every element type and every count
\* N >= 1 whose byte size N * sizeof(T) does not wrap size_t, a successful
\* allocate-array(ref, N) yields a region of N elements; an element written
\* reads back as written, and no operation on another region changes it.
C4_RoundTrip ==
    [][/\ (ArrayHolds(last') /\ Fits(TypeOf(last'.slot), last'.args[1]))
             => Len(heap'[slot'[last'.slot]].data) = last'.args[1]
       /\ WriteReadBack
       /\ OthersKeep]_vars

C4_Witness ==
    /\ last.op = "pfree"
    /\ last.slot = "point"
    /\ last.was \in Addr
    /\ last.calls[1].size > 0
    /\ slot["nums"] \in Addr
    /\ heap[slot["nums"]].data = <<MaxVal>>

\* C5 Backend swap isolation: an allocate / reallocate / free made while the
\* default binding is active leaves alloc_count, free_count and
\* total_allocated of the TestAllocator unchanged.
C5_SwapIsolation ==
    [][(last'.op \in FacadeOps /\ macros = DefaultBinding)
         => test_allocator' = test_allocator]_vars

C5_Witness ==
    /\ last.op = "ppalloc"
    /\ macros = DefaultBinding
    /\ last.calls[1].ret /= NULL
    /\ last.calls[1].size > 0
    /\ test_allocator.alloc_count = 1
    /\ test_allocator.total_allocated > 0

\* bytes of the live regions the TestAllocator handed out
TestBytes(h) == SumSizes(h, {a \in Addr : h[a].owner = "test"})

\* C6 Counting-backend accounting: after any sequence of allocate /
\* reallocate / free calls made with the true counts, total_allocated equals
\* the sum of the byte sizes of the regions of the counting backend that are
\* still live, and is 0 once every such region has been freed.
C6_Accounting == test_allocator.total_allocated = TestBytes(heap) % SIZE_MOD

RebindOps == {"define_custom", "define_default", "tgalloc_default_h"}

\* the backend a region allocated under binding m comes from
OwnerUnder(m) == IF m.TGA_ALLOC_A_S = "test_alloc" THEN "test" ELSE "dflt"

\* C7 Rebinding changes nothing but the binding: a redefinition of the macros
\* leaves every region (liveness, size, contents, address, originating
\* backend), every caller pointer and the TestAllocator unchanged; a call made
\* afterwards goes to the functions and the instance bound at that time, and
\* a region it allocates comes from that backend.
C7_RebindFrame ==
    [][/\ last'.op \in RebindOps
            => (heap' = heap /\ slot' = slot /\ test_allocator' = test_allocator)
       /\ last'.op \in FacadeOps
            => /\ last'.calls[1].self = macros.TGA
               /\ last'.calls[1].fn \in {macros.TGA_ALLOC_A_S, macros.TGA_REALLOC_A_S,
                                         macros.TGA_FREE_A_S}
       /\ (last'.op = "ppalloc" /\ last'.calls[1].ret /= NULL)
            => heap'[last'.calls[1].ret].owner = OwnerUnder(macros)]_vars

C7_Witness ==
    /\ last.op = "define_default"
    /\ macros = DefaultBinding
    /\ test_allocator.alloc_count = 1
    /\ \E s \in Slots :
           /\ slot[s] \in Addr
           /\ heap[slot[s]].owner = "test"
           /\ heap[slot[s]].data = <<MaxVal>>

\* C8 Switching back by including tgalloc_default.h: after the inclusion the
\* active binding equals the initial default binding in all four components.
C8_IncludeRestoresDefault == last.op = "tgalloc_default_h" => macros = DefaultBinding

\* C9 Arity dispatch: in every build, allocate and free with no count resolve
\* to the single-object helper and with one count to the array helper; the
\* single-object form and the array form with count 1 make the same backend
\* call (same size, same alignment) with the same outcomes.
C9_ArityDispatch ==
    /\ \A s \in Slots :
           /\ _tgalloc_palloc_choose(build, <<s>>) = "_tgalloc_palloc1"
           /\ _tgalloc_pfree_choose(build, <<s>>) = "_tgalloc_pfree1"
           /\ \A n \in Counts :
                  /\ _tgalloc_palloc_choose(build, <<s, n>>) = "_tgalloc_palloc2"
                  /\ _tgalloc_pfree_choose(build, <<s, n>>) = "_tgalloc_pfree2"
           /\ palloc(macros, build, heap, test_allocator, slot, <<s>>)
                  = palloc(macros, build, heap, test_allocator, slot, <<s, 1>>)
           /\ Valid(s) => pfree(macros, build, heap, test_allocator, slot, <<s>>)
                              = pfree(macros, build, heap, test_allocator, slot, <<s, 1>>)
    /\ last.op \in {"ppalloc", "pfree"}
           => /\ last.args = <<>> <=> last.variant \in {"_tgalloc_palloc1", "_tgalloc_pfree1"}
              /\ last.args \in {<<>>, <<1>>}
                     => /\ last.calls[1].size = _tgalloc_sizeof(TypeOf(last.slot))
                        /\ last.calls[1].alignment
                               = _tgalloc_alignof_impl(build, TypeOf(last.slot))

C9_Witness ==
    /\ build.cstd = "c99"
    /\ last.op = "pfree"
    /\ last.args = <<1>>
    /\ last.variant = "_tgalloc_pfree2"
    /\ last.was \in Addr
    /\ last.calls[1].size = SizeofT("Point")
    /\ \A a \in Addr : ~heap[a].live

\* a pprealloc under the default reallocation function that returned null
DfltReallocNull ==
    /\ last'.op = "pprealloc"
    /\ last'.calls[1].fn = "_tgalloc_dflt_realloc_aligned_sized"
    /\ last'.calls[1].ret = NULL
    /\ slot[last'.slot] \in Addr

\* C10 as claimed: whenever reallocate under the default backend returns
\* null, the original region is live with its length and contents as before.
C10_ReallocFailureKeeps_AsClaimed ==
    [][DfltReallocNull => heap'[slot[last'.slot]] = heap[slot[last'.slot]]]_vars

\* C10 Default-backend reallocation failure, amended: when reallocate to a
\* non-zero byte size under the default backend returns null, the original
\* region is still live with its byte length and contents as before the call.
C10_ReallocFailureKeeps ==
    [][(DfltReallocNull /\ last'.calls[1].size > 0)
         => heap'[slot[last'.slot]] = heap[slot[last'.slot]]]_vars

C10_Witness ==
    /\ last.op = "pprealloc"
    /\ last.calls[1].fn = "_tgalloc_dflt_realloc_aligned_sized"
    /\ last.calls[1].ret = NULL
    /\ last.calls[1].size > last.calls[1].old_size
    /\ last.was \in Addr
    /\ heap[last.was].live
    /\ heap[last.was].size = last.calls[1].old_size
    /\ heap[last.was].data = <<MaxVal>>

IsPowerOfTwo(n) == \E k \in 0 .. SizeBits : n = Pow2(k)

\* C11 Element Descriptor invariant: the alignment a facade call passes to the
\* backend is a power of two for every element type, in every build, the
\* size-based fallback included.
C11_AlignmentPowerOfTwo ==
    last.op \in FacadeOps => IsPowerOfTwo(last.calls[1].alignment)

\* the function of binding m a facade operation calls
BoundFn(m, op) ==
    IF op = "ppalloc" THEN m.TGA_ALLOC_A_S
    ELSE IF op = "pprealloc" THEN m.TGA_REALLOC_A_S
    ELSE m.TGA_FREE_A_S

\* C12 One-shot calls: every facade operation makes exactly one call, to the
\* function of its kind in the binding active at the call and with that
\* binding's instance handle; a null result is not retried: the counting
\* backend sees one allocation at most, and the program goes on with the
\* pointer null.
C12_OneShot ==
    [][last'.op \in FacadeOps
         => /\ Len(last'.calls) = 1
            /\ last'.calls[1].fn = BoundFn(macros, last'.op)
            /\ last'.calls[1].self = macros.TGA
            /\ last'.calls[1].ptr = (IF last'.op = "ppalloc" THEN NULL ELSE slot[last'.slot])
            /\ test_allocator'.alloc_count =
                   (IF last'.calls[1].fn = "test_alloc" /\ ~test_allocator.should_fail
                    THEN (test_allocator.alloc_count + 1) % SIZE_MOD
                    ELSE test_allocator.alloc_count)
            /\ test_allocator'.free_count =
                   (IF last'.calls[1].fn = "test_free" /\ slot[last'.slot] /= NULL
                    THEN (test_allocator.free_count + 1) % SIZE_MOD
                    ELSE test_allocator.free_count)
            /\ (last'.op /= "pfree" /\ last'.calls[1].ret = NULL)
                   => (slot'[last'.slot] = NULL /\ budget' = budget - 1)]_vars

C12_Witness ==
    /\ last.op = "ppalloc"
    /\ last.variant = "_tgalloc_palloc1"
    /\ last.calls[1].fn = "test_alloc"
    /\ last.calls[1].ret = NULL
    /\ ~test_allocator.should_fail
    /\ test_allocator.alloc_count = 1
    /\ budget > 0

\* what pprealloc hands to the backend and does with its result
ReallocPasses ==
    LET T == TypeOf(last'.slot)
        c == last'.calls[1]
    IN /\ c.ptr = slot[last'.slot]
       /\ c.old_size = (SizeofT(T) * last'.args[1]) % SIZE_MOD
       /\ c.size = (SizeofT(T) * last'.args[2]) % SIZE_MOD
       /\ c.alignment = AlignofT(T)
       /\ slot'[last'.slot] = c.ret
       /\ \A a \in Addr : heap'[a].live => 
              (IF a = c.ret THEN heap'[a].size = c.size ELSE heap'[a] = heap[a])

\* total_allocated moves by (new_count - old_count) * element size, in size_t
\* arithmetic, and the two call counters stay
ReallocBooks ==
    LET T == TypeOf(last'.slot)
    IN /\ test_allocator'.total_allocated =
              (test_allocator.total_allocated
                   + (SIZE_MOD + last'.args[2] - last'.args[1]) * SizeofT(T)) % SIZE_MOD
       /\ test_allocator'.alloc_count = test_allocator.alloc_count
       /\ test_allocator'.free_count = test_allocator.free_count

\* C13 as claimed: reallocate-array passes old_count * size, new_count * size
\* and the alignment, assigns the result, and under the counting backend
\* total_allocated changes by exactly (new_count - old_count) * size.
C13_ReallocSizes_AsClaimed ==
    [][last'.op = "pprealloc"
         => /\ ReallocPasses
            /\ last'.calls[1].fn = "test_realloc" => ReallocBooks]_vars

\* C13 amended: reallocate-array passes old_count * size, new_count * size and
\* the element's alignment and assigns the backend's result to the slot;
\* under the counting backend with should_fail false, total_allocated changes
\* by exactly (new_count - old_count) * size while alloc_count and free_count
\* stay unchanged; with should_fail true no counter changes.
C13_ReallocSizes ==
    [][last'.op = "pprealloc"
         => /\ ReallocPasses
            /\ last'.calls[1].fn = "test_realloc"
                  => IF test_allocator.should_fail
                     THEN test_allocator' = test_allocator
                     ELSE ReallocBooks]_vars

C13_Witness ==
    /\ last.op = "pprealloc"
    /\ last.slot = "nums"
    /\ last.args = <<1, 2>>
    /\ last.calls[1].fn = "test_realloc"
    /\ last.calls[1].ret \in Addr
    /\ last.was \in Addr
    /\ test_allocator.alloc_count = 1
    /\ test_allocator.total_allocated = 2 * SizeofT("int")

\* element size times count, reduced modulo 2^w
Wrapped(T, count) == (SizeofT(T) * count) % SIZE_MOD

\* C14 No overflow validation: for every element type and every count, in
\* every build, allocate-array, reallocate-array and free-array pass
\* (element size * count) modulo 2^w to the backend in their one call; in a
\* state where the facade makes the call for one count it makes it for every
\* count; a region allocated that way holds the wrapped byte count.
C14_NoOverflowValidation ==
    [][/\ (last'.op = "ppalloc" /\ last'.variant = "_tgalloc_palloc2")
              => LET c == last'.calls[1]
                 IN /\ Len(last'.calls) = 1
                    /\ c.size = Wrapped(TypeOf(last'.slot), last'.args[1])
                    /\ c.ret /= NULL => heap'[c.ret].size = c.size
                    /\ \A n \in Counts :
                          palloc(macros, build, heap, test_allocator, slot,
                                 <<last'.slot, n>>) /= {}
       /\ (last'.op = "pfree" /\ last'.variant = "_tgalloc_pfree2")
              => /\ Len(last'.calls) = 1
                 /\ last'.calls[1].size = Wrapped(TypeOf(last'.slot), last'.args[1])
                 /\ \A n \in Counts :
                       pfree(macros, build, heap, test_allocator, slot,
                             <<last'.slot, n>>) /= {}
       /\ last'.op = "pprealloc"
              => /\ Len(last'.calls) = 1
                 /\ last'.calls[1].old_size = Wrapped(TypeOf(last'.slot), last'.args[1])
                 /\ last'.calls[1].size = Wrapped(TypeOf(last'.slot), last'.args[2])
                 /\ \A n \in Counts :
                       pprealloc(macros, build, heap, test_allocator, slot,
                                 AddrOf(last'.slot), last'.args[1], n) /= {}]_vars

\* a successful allocate-array whose product wrapped: the region is shorter
\* than count elements
C14_Witness ==
    /\ last.op = "ppalloc"
    /\ last.variant = "_tgalloc_palloc2"
    /\ ~Fits(TypeOf(last.slot), last.args[1])
    /\ last.calls[1].ret \in Addr
    /\ Len(heap[last.calls[1].ret].data) < last.args[1]
    /\ heap[last.calls[1].ret].size < SizeofT(TypeOf(last.slot)) * last.args[1]

\* this step is a pprealloc of a live region whose backend call returned null
NullRealloc ==
    /\ last'.op = "pprealloc"
    /\ last'.calls[1].ret = NULL
    /\ slot[last'.slot] \in Addr

\* this step is a pfree on the slot the step before it left null that way
FreeAfterNullRealloc ==
    /\ last.op = "pprealloc"
    /\ last.calls[1].ret = NULL
    /\ last.was \in Addr
    /\ last'.op = "pfree"
    /\ last'.slot = last.slot

\* C15 as claimed: after a reallocate-array whose backend call returns null
\* the slot is null and the original region is still live; the following
\* free-array on the slot is a null no-op, the region stays live and the
\* counting backend's total_allocated is not 0.
C15_NullReallocLeak_AsClaimed ==
    [][/\ NullRealloc
            => /\ slot'[last'.slot] = NULL
               /\ heap'[slot[last'.slot]] = heap[slot[last'.slot]]
       /\ FreeAfterNullRealloc
            => /\ heap' = heap /\ test_allocator' = test_allocator /\ slot' = slot
               /\ heap'[last.was].live
               /\ last.calls[1].fn = "test_realloc"
                     => test_allocator'.total_allocated /= 0]_vars

\* C15 amended: reallocate-array assigns the backend's result to the slot
\* unconditionally; after a reallocate-array to a non-zero byte size whose
\* backend call returns null the slot is null while the original region is
\* live and unchanged; a following free-array on that slot is a null no-op:
\* it releases nothing and leaves the TestAllocator as the reallocate left
\* it, so the region is not released through the slot.
C15_NullReallocLeak ==
    [][/\ NullRealloc
            => /\ slot'[last'.slot] = NULL
               /\ last'.calls[1].size > 0
                     => heap'[slot[last'.slot]] = heap[slot[last'.slot]]
       /\ FreeAfterNullRealloc
            => /\ heap' = heap /\ test_allocator' = test_allocator /\ slot' = slot
               /\ last.calls[1].size > 0 => heap'[last.was].live]_vars

C15_Witness ==
    /\ last.op = "pfree"
    /\ last.was = NULL
    /\ last.variant = "_tgalloc_pfree2"
    /\ last.calls[1].fn = "test_free"
    /\ slot[last.slot] = NULL
    /\ test_allocator.alloc_count = 1
    /\ test_allocator.free_count = 0
    /\ test_allocator.total_allocated > 0
    /\ \E a \in Addr :
           /\ heap[a].live
           /\ heap[a].owner = "test"
           /\ heap[a].size > 0
           /\ \A s \in Slots : slot[s] /= a

\* the live regions the TestAllocator handed out
TestRegions(h) == {a \in Addr : h[a].live /\ h[a].owner = "test"}

\* C16 Counting-backend call counters: after any sequence of allocate,
\* reallocate and free calls made with the true counts, alloc_count -
\* free_count is the number of regions of the counting backend currently
\* live, and free_count never exceeds alloc_count.
C16_CountersMatchLive ==
    /\ test_allocator.free_count <= test_allocator.alloc_count
    /\ test_allocator.alloc_count - test_allocator.free_count
           = Cardinality(TestRegions(heap))

====
